---- MODULE Spec2Model ----
(***************************************************************************)
(* Model of community_server/server.js: the view counter and like ledger   *)
(* of the community board, with the handlers around them.                  *)
(*                                                                         *)
(* File-backed server (server.js 631-999): every handler is an async       *)
(* function; it runs synchronously up to an await on fs.readFile           *)
(* (loadPosts) or fs.writeFile (savePosts).  The views handler is          *)
(* modelled step by step:                                                  *)
(*   ViewStart  the synchronous code up to the first await (it reads the   *)
(*              clock),                                                    *)
(*   ReadFile   the instant fs.readFile reads posts.json,                  *)
(*   ViewLoaded the continuation of `await findPostById`,                  *)
(*   WriteFile  the instant fs.writeFile replaces posts.json,              *)
(*   ViewSaved  the continuation of `await savePosts`.                     *)
(* The likes handler does nothing before its first await, so LikeStart is  *)
(* the request together with the read of the file; LikeLoaded is the       *)
(* continuation, which reads the clock and the rate-limit map.  The other  *)
(* handlers touch nothing but their own copy of the posts between the      *)
(* read and the write, so *Start is the request, the read and the change   *)
(* of the copy in one step.  Every handler but views answers right after   *)
(* its write, so WriteFile answers for them.  No other handler can tell    *)
(* these steps from the finer ones.                                        *)
(* Storage is taken to be reliable here (fs.readFile and fs.writeFile      *)
(* succeed and are atomic).                                                *)
(*                                                                         *)
(* Database-backed server (server.js 1-629): every `await pool.query` is   *)
(* one statement, run by MariaDB on its own; Db* are its handlers, a step  *)
(* per statement.  posts is taken to have the `hits` column the handlers   *)
(* read and write (INT, 0 for a new post).                                 *)
(***************************************************************************)
EXTENDS Integers, Naturals, Sequences, FiniteSets, Bags, TLC

\* ------------------------------------------------------------------ bounds
\* request contexts that may be in flight at the same time
MaxInFlight == 2
\* requests accepted in one behaviour when they may overlap
MaxRequests == 2
\* requests accepted in one behaviour of a client that sends them one by one
MaxSerialRequests == 2

\* --------------------------------------------------------------- constants
\* const LIMIT_DURATION = 5 * 60 * 1000 of the views handler
VIEW_LIMIT_DURATION == 5 * 60 * 1000
\* const LIMIT_DURATION = 1 * 60 * 1000 of the likes handler
LIKE_LIMIT_DURATION == 1 * 60 * 1000
\* Date.now() when the process starts: milliseconds since 1970, far above
\* both windows (scaled to fit 32-bit integers; only its being larger than
\* the windows and non-zero matters to the code's comparisons).
StartClock == 1000 * 1000 * 1000
\* the time that may pass between two readings of the clock: a moment (two
\* readings in the same millisecond compare as these do), the likes cooldown,
\* the views window
Elapsed == {1, LIKE_LIMIT_DURATION, VIEW_LIMIT_DURATION}

\* JavaScript undefined where a number is expected (a missing field, Map.get miss)
Undefined == 0 - 1
\* a missing or empty string of a request
NoValue == "none"
\* req.body.author of a like request
Users == {"u1", "u2"}
\* the User-Agent header of a view request
Agents == {"u1", NoValue}
\* uuidv4() values for posts and comments
PostUuids == {"p1"}
CommentUuids == {"k1"}
\* the :id of a request ("p1" names no post until it is created)
TargetIds == {"board"} \cup PostUuids
\* the body of PUT /api/posts/:id
EditBodies ==
    {[title |-> NoValue, content |-> NoValue],
     [title |-> "t1", content |-> NoValue],
     [title |-> NoValue, content |-> "c1"]}
\* the content of a comment request
CommentContents == {NoValue, "b"}

VARIABLES
    file,               \* posts.json: the stored list of posts
    viewRateLimitMap,   \* Map userKey -> Map postId -> time of last applied view
    likesRateLimitMap,  \* Map user -> time of last toggle
    clock,              \* Date.now()
    issued,             \* uuids handed out so far
    db,                 \* the MariaDB tables and clock of the database-backed server
    lastToggle,         \* the clients' record: when each identity's last toggle was permitted
    oddToggles,         \* the clients' record: the <<post, identity>> with an odd number of
                        \* permitted toggles
    budget,             \* requests the clients may still send
    serial,             \* TRUE: the requests are sent one by one, each after the last answer
    logging,            \* TRUE: the clients log the answers
    req,                \* the bag of request contexts in flight
    hist                \* the clients' log: the last two answers

vars == <<file, viewRateLimitMap, likesRateLimitMap, clock, issued, db, lastToggle, oddToggles, budget, serial, logging, req, hist>>

\* ----------------------------------------------------------------- helpers
\* the default post written by ensurePostsFile: it has no views field
DefaultPost ==
    [id |-> "board", title |-> "t0", content |-> "c0", likes |-> 0,
     comments |-> <<>>, usersLikes |-> <<>>, commentsCount |-> 0,
     views |-> Undefined]

\* newPost of app.post('/api/posts')
NewPost(id) ==
    [id |-> id, title |-> "t0", content |-> "c0", likes |-> 0,
     comments |-> <<>>, usersLikes |-> <<>>, commentsCount |-> 0,
     views |-> 0]

\* Array.prototype.findIndex on .id, 0 standing for -1
FindIndex(s, id) ==
    IF \E i \in 1..Len(s) : s[i].id = id
    THEN CHOOSE i \in 1..Len(s) :
            /\ s[i].id = id
            /\ \A j \in 1..(i - 1) : s[j].id # id
    ELSE 0

\* Array.prototype.splice(i, 1)
Splice(s, i) == [j \in 1..(Len(s) - 1) |-> IF j < i THEN s[j] ELSE s[j + 1]]

\* Array.prototype.includes
Includes(s, x) == \E i \in 1..Len(s) : s[i] = x

\* Array.prototype.filter(e => e !== x)
RECURSIVE FilterOut(_, _)
FilterOut(s, x) ==
    IF s = <<>> THEN <<>>
    ELSE IF Head(s) = x THEN FilterOut(Tail(s), x)
    ELSE <<Head(s)>> \o FilterOut(Tail(s), x)

\* a || b on strings
OrElse(a, b) == IF a = NoValue THEN b ELSE a

\* post.views || 0
ViewsOrZero(post) == IF post.views = Undefined THEN 0 ELSE post.views

\* userAgent || 'unknown'
UserKey(agent) == OrElse(agent, "unknown")

\* uuidv4(): a value not handed out before
FreshUuid(pool) == CHOOSE x \in pool \ issued : TRUE

\* userViews.get(id) of viewRateLimitMap.get(userKey): Undefined when there is no entry
LastViewTime(m, userKey, id) ==
    IF userKey \in DOMAIN m /\ id \in DOMAIN m[userKey] THEN m[userKey][id] ELSE Undefined

\* likesRateLimitMap.get(user): Undefined when there is no entry
LastLikeTime(m, user) == IF user \in DOMAIN m THEN m[user] ELSE Undefined

\* --------------------------------------------------------- the clients' log
\* the counters of post id in a list of posts
NoPost == [views |-> Undefined, likes |-> Undefined, usersLikes |-> <<>>]
Counters(posts, id) ==
    IF FindIndex(posts, id) = 0 THEN NoPost
    ELSE LET p == posts[FindIndex(posts, id)]
         IN [views |-> ViewsOrZero(p), likes |-> p.likes, usersLikes |-> p.usersLikes]

\* the rate-limit timestamp a request of this kind is measured against
Stamp(op, user, id, vm, lm) ==
    IF op = "view" THEN LastViewTime(vm, user, id)
    ELSE IF op = "like" THEN LastLikeTime(lm, user)
    ELSE Undefined

\* the requests in flight
InFlight == BagToSet(req)

\* a request is accepted
Accept ==
    /\ budget > 0
    /\ BagCardinality(req) < MaxInFlight
    /\ serial => req = EmptyBag

\* the request context of a new request
Arrived(op, pc, id, user, now, posts) ==
    [op |-> op, pc |-> pc, id |-> id, user |-> user, now |-> now, posts |-> posts,
     before |-> IF logging THEN Counters(file, id) ELSE NoPost,
     stampBefore |-> IF logging THEN Stamp(op, user, id, viewRateLimitMap, likesRateLimitMap)
                     ELSE Undefined]

\* the handler of a new request q reaches its first await
Begin(q) == req' = req (+) SetToBag({q})

\* the handler of request q goes on to its next await as q2
Continue(q, q2) == req' = (req (-) SetToBag({q})) (+) SetToBag({q2})

\* the handler of request q has answered
End(q) == req' = req (-) SetToBag({q})

\* the body with the counter also in the answer to a throttled request
BodyWithCounter(q, status) ==
    LET i == FindIndex(q.posts, q.id) IN
    [success |-> status \in {200, 201, 429},
     carried |-> IF i = 0 THEN Undefined
                 ELSE IF q.op = "view" THEN ViewsOrZero(q.posts[i])
                 ELSE IF q.op = "like" THEN q.posts[i].likes
                 ELSE Undefined]

\* the body of res.json: `success`, and the counter it carries: data.views of
\* an applied view, likes of a permitted toggle, of the handler's copy of the post
Body(q, status) ==
    LET i == FindIndex(q.posts, q.id) IN
    [success |-> status \in {200, 201},
     carried |-> IF status # 200 \/ i = 0 THEN Undefined
                 ELSE IF q.op = "view" THEN ViewsOrZero(q.posts[i])
                 ELSE IF q.op = "like" THEN q.posts[i].likes
                 ELSE Undefined]

\* what the client logs of a response
Logged(q, status, now, stored, vm, lm) ==
    [op |-> q.op, id |-> q.id, user |-> q.user, now |-> now, status |-> status,
     before |-> q.before, after |-> Counters(stored, q.id),
     stampBefore |-> q.stampBefore, stampAfter |-> Stamp(q.op, q.user, q.id, vm, lm),
     body |-> Body(q, status),
     toggled |-> IF q.op = "like" /\ q.user \in DOMAIN lastToggle THEN lastToggle[q.user]
                 ELSE Undefined]

\* res.status(status).json(..) to request q; `stored`, vm and lm are the file
\* and the two maps as the step leaves them
Respond(q, status, now, stored, vm, lm) ==
    hist' = IF logging
            THEN (IF Len(hist) < 2 THEN hist ELSE Tail(hist)) \o
                 <<Logged(q, status, now, stored, vm, lm)>>
            ELSE hist

\* Date.now(): the clock has advanced by d since it was last read
DateNow(d) == clock' = clock + d

\* ----------------------------------------------------------------- storage
\* loadPosts of the views handler: fs.readFile + JSON.parse
ReadFile(q) ==
    /\ q.pc = "read"
    /\ Continue(q, [q EXCEPT !.posts = file, !.pc = "loaded"])
    /\ UNCHANGED <<db, lastToggle, oddToggles, file, viewRateLimitMap, likesRateLimitMap, clock, issued,
                   budget, serial, logging, hist>>

\* the status of a handler's answer after savePosts
SavedStatus(op) == IF op = "create" THEN 201 ELSE 200

\* savePosts: fs.writeFile(JSON.stringify(posts)); every handler but views answers
\* right after it
WriteFile(q) ==
    /\ q.pc = "write"
    /\ file' = q.posts
    /\ IF q.op = "view"
       THEN /\ Continue(q, [q EXCEPT !.pc = "written"])
            /\ UNCHANGED hist
       ELSE /\ End(q)
            /\ Respond(q, SavedStatus(q.op), q.now, file',
                       viewRateLimitMap, likesRateLimitMap)
    /\ UNCHANGED <<db, lastToggle, oddToggles, viewRateLimitMap, likesRateLimitMap, clock, issued, budget, serial, logging>>

\* savePosts when fs.writeFile rejects (the file cannot be opened for writing:
\* EACCES, EROFS, EMFILE): the catch block logs the error, posts.json is as it
\* was, and the handler goes on as after a write
WriteFileFails(q) ==
    /\ q.pc = "write"
    /\ IF q.op = "view"
       THEN /\ Continue(q, [q EXCEPT !.pc = "written"])
            /\ UNCHANGED hist
       ELSE /\ End(q)
            /\ Respond(q, SavedStatus(q.op), q.now, file,
                       viewRateLimitMap, likesRateLimitMap)
    /\ UNCHANGED <<db, lastToggle, oddToggles, file, viewRateLimitMap, likesRateLimitMap, clock,
                   issued, budget, serial, logging>>

\* ------------------------------------------------- PATCH /api/posts/:id/views
ViewStart(id, agent, d) ==
    /\ Accept
    /\ DateNow(d)
    /\ Begin(Arrived("view", "read", id, UserKey(agent), clock', <<>>))
    /\ budget' = budget - 1
    /\ UNCHANGED <<db, lastToggle, oddToggles, file, viewRateLimitMap, likesRateLimitMap, issued, serial, logging, hist>>

\* viewRateLimitMap after `if (!has(userKey)) set(userKey, new Map())`
EnsureUserViews(m, userKey) ==
    IF userKey \in DOMAIN m THEN m
    ELSE [k \in DOMAIN m \cup {userKey} |-> IF k = userKey THEN <<>> ELSE m[k]]

\* the window compared with <= instead of <
ViewLimitedInclusive(last, now) ==
    /\ last # Undefined
    /\ last # 0
    /\ now - last <= VIEW_LIMIT_DURATION

\* lastViewTime && now - lastViewTime < LIMIT_DURATION
ViewLimited(last, now) ==
    /\ last # Undefined
    /\ last # 0
    /\ now - last < VIEW_LIMIT_DURATION

\* userViews.set forgotten after an applied view
SetViewTimeForgotten(m, userKey, id, now) == m

\* userViews.set(id, now)
SetViewTime(m, userKey, id, now) ==
    [m EXCEPT ![userKey] =
        [k \in DOMAIN m[userKey] \cup {id} |-> IF k = id THEN now ELSE m[userKey][k]]]

\* the denial of a view refreshing the timestamp
ViewDeniedRefreshing(m, userKey, id, now) == SetViewTime(m, userKey, id, now)

\* the map after a view was denied: the handler returns 429 and sets nothing
ViewDenied(m, userKey, id, now) == m

\* post.views = (post.views || 0) + 1; posts[postIndex] = post
IncrementViews(posts, i) == [posts EXCEPT ![i].views = ViewsOrZero(posts[i]) + 1]

\* the continuation of `await findPostById`, up to `await savePosts`
ViewLoaded(q) ==
    LET i == FindIndex(q.posts, q.id)
        m == EnsureUserViews(viewRateLimitMap, q.user)
    IN
    /\ q.op = "view" /\ q.pc = "loaded"
    /\ IF i = 0
       THEN /\ UNCHANGED viewRateLimitMap
            /\ End(q)
            /\ Respond(q, 404, q.now, file, viewRateLimitMap, likesRateLimitMap)
       ELSE IF ViewLimited(LastViewTime(m, q.user, q.id), q.now)
       THEN /\ viewRateLimitMap' = ViewDenied(m, q.user, q.id, q.now)
            /\ End(q)
            /\ Respond(q, 429, q.now, file, viewRateLimitMap', likesRateLimitMap)
       ELSE /\ viewRateLimitMap' = m
            /\ Continue(q, [q EXCEPT !.posts = IncrementViews(q.posts, i), !.pc = "write"])
            /\ UNCHANGED hist
    /\ UNCHANGED <<db, lastToggle, oddToggles, file, likesRateLimitMap, clock, issued, budget, serial, logging>>

\* after `await savePosts(posts)`: userViews.set(id, now); res.json(..)
ViewSaved(q) ==
    LET m == SetViewTime(viewRateLimitMap, q.user, q.id, q.now) IN
    /\ q.op = "view" /\ q.pc = "written"
    /\ viewRateLimitMap' = m
    /\ End(q)
    /\ Respond(q, 200, q.now, file, m, likesRateLimitMap)
    /\ UNCHANGED <<db, lastToggle, oddToggles, file, likesRateLimitMap, clock, issued, budget, serial, logging>>

\* ------------------------------------------------- PATCH /api/posts/:id/likes
\* the request and the read of `await findPostById`
LikeStart(id, user) ==
    /\ Accept
    /\ Begin(Arrived("like", "loaded", id, user, 0, file))
    /\ budget' = budget - 1
    /\ UNCHANGED <<db, lastToggle, oddToggles, file, viewRateLimitMap, likesRateLimitMap, clock, issued, serial, logging, hist>>

\* likesRateLimitMap after `if (!has(user)) set(user, 0)`
EnsureLikeTime(m, user) ==
    IF user \in DOMAIN m THEN m
    ELSE [k \in DOMAIN m \cup {user} |-> IF k = user THEN 0 ELSE m[k]]

\* the cooldown never in force
LikeLimitedNever(last, now) == FALSE

\* now - lastRequestTime < LIMIT_DURATION
LikeLimited(last, now) == now - last < LIKE_LIMIT_DURATION

\* the timestamp of a toggle recorded for every identity
SetLikeTimeOfAll(m, user, now) == [k \in DOMAIN m \cup Users |-> now]

\* likesRateLimitMap.set(user, now)
SetLikeTime(m, user, now) == [m EXCEPT ![user] = now]

\* the throttled toggle dropping the entry of its identity
LikeDeniedForgetting(m, user, now) == [k \in DOMAIN m \ {user} |-> m[k]]

\* the throttled toggle refreshing the timestamp
LikeDeniedRefreshing(m, user, now) == SetLikeTime(m, user, now)

\* the map after a toggle was throttled: the handler returns 429 and sets nothing
LikeDenied(m, user, now) == m

\* the toggle-off that leaves the identity in usersLikes
ToggleLikeKeepsMember(post, user) ==
    IF Includes(post.usersLikes, user)
    THEN [post EXCEPT !.likes = post.likes - 1]
    ELSE [post EXCEPT !.likes = post.likes + 1,
                      !.usersLikes = Append(post.usersLikes, user)]

\* the toggle-off that forgets to decrement likes
ToggleLikeNoDecrement(post, user) ==
    IF Includes(post.usersLikes, user)
    THEN [post EXCEPT !.usersLikes = FilterOut(post.usersLikes, user)]
    ELSE [post EXCEPT !.likes = post.likes + 1,
                      !.usersLikes = Append(post.usersLikes, user)]

\* the toggle of usersLikes and likes on one post
ToggleLike(post, user) ==
    IF Includes(post.usersLikes, user)
    THEN [post EXCEPT !.likes = post.likes - 1,
                      !.usersLikes = FilterOut(post.usersLikes, user)]
    ELSE [post EXCEPT !.likes = post.likes + 1,
                      !.usersLikes = Append(post.usersLikes, user)]

\* the toggle on a missing post recording its time
LikeNotFoundStamping(m, user, now) == SetLikeTime(m, user, now)

\* the map after a toggle on a missing post: the handler returns 404 and sets
\* nothing more
LikeNotFound(m, user, now) == m

\* x put into the set s, or taken out of it when it is there
Flip(s, x) == IF x \in s THEN s \ {x} ELSE s \cup {x}

\* the continuation of `await findPostById`, up to `await savePosts`
LikeLoaded(q, d) ==
    LET i == FindIndex(q.posts, q.id)
        now == clock'
        m == EnsureLikeTime(likesRateLimitMap, q.user)
    IN
    /\ q.op = "like" /\ q.pc = "loaded"
    /\ DateNow(d)
    /\ IF q.user = NoValue
       THEN /\ UNCHANGED <<likesRateLimitMap, lastToggle, oddToggles>>
            /\ End(q)
            /\ Respond(q, 400, now, file, viewRateLimitMap, likesRateLimitMap)
       ELSE IF LikeLimited(m[q.user], now)
       THEN /\ likesRateLimitMap' = LikeDenied(m, q.user, now)
            /\ UNCHANGED <<lastToggle, oddToggles>>
            /\ End(q)
            /\ Respond(q, 429, now, file, viewRateLimitMap, likesRateLimitMap')
       ELSE IF i = 0
       THEN /\ likesRateLimitMap' = LikeNotFound(m, q.user, now)
            /\ UNCHANGED <<lastToggle, oddToggles>>
            /\ End(q)
            /\ Respond(q, 404, now, file, viewRateLimitMap, likesRateLimitMap')
       ELSE /\ likesRateLimitMap' = SetLikeTime(m, q.user, now)
            /\ lastToggle' = IF logging THEN (q.user :> now) @@ lastToggle
                             ELSE lastToggle
            /\ oddToggles' = IF logging THEN Flip(oddToggles, <<q.id, q.user>>)
                             ELSE oddToggles
            /\ Continue(q, [q EXCEPT !.posts[i] = ToggleLike(q.posts[i], q.user),
                                     !.now = IF logging THEN now ELSE 0,
                                     !.pc = "write"])
            /\ UNCHANGED hist
    /\ UNCHANGED <<db, file, viewRateLimitMap, issued, budget, serial, logging>>

\* ------------------------------------------------------ the other handlers
\* a handler that found no post (i = 0) answers 404; otherwise it goes on to
\* `await savePosts(posts)` with its changed copy of the posts
FoundOr404(op, id, i, changed) ==
    IF i = 0
    THEN /\ UNCHANGED req
         /\ Respond(Arrived(op, "done", id, NoValue, 0, <<>>), 404, 0, file,
                    viewRateLimitMap, likesRateLimitMap)
    ELSE /\ Begin(Arrived(op, "write", id, NoValue, 0, changed))
         /\ UNCHANGED hist

\* a handler that rejects its request before it reads the file
BadRequest(op, id) ==
    /\ UNCHANGED req
    /\ Respond(Arrived(op, "done", id, NoValue, 0, <<>>), 400, 0, file,
               viewRateLimitMap, likesRateLimitMap)

\* POST /api/posts; valid: title, content and author are all given
CreateStart(valid) ==
    /\ Accept
    /\ budget' = budget - 1
    /\ IF ~valid
       THEN /\ BadRequest("create", NoValue)
            /\ UNCHANGED issued
       ELSE /\ PostUuids \ issued # {}
            /\ issued' = issued \cup {FreshUuid(PostUuids)}
            /\ FoundOr404("create", FreshUuid(PostUuids), 1,
                          Append(file, NewPost(FreshUuid(PostUuids))))
    /\ UNCHANGED <<db, lastToggle, oddToggles, file, viewRateLimitMap, likesRateLimitMap, clock, serial, logging>>

\* Object.assign(post, {title: title || post.title, content: content || post.content})
AssignPost(post, body) ==
    [post EXCEPT !.title = OrElse(body.title, post.title),
                 !.content = OrElse(body.content, post.content)]

\* PUT /api/posts/:id
EditStart(id, body) ==
    LET i == FindIndex(file, id) IN
    /\ Accept
    /\ budget' = budget - 1
    /\ IF body.title = NoValue /\ body.content = NoValue
       THEN BadRequest("edit", id)
       ELSE FoundOr404("edit", id, i, [file EXCEPT ![i] = AssignPost(file[i], body)])
    /\ UNCHANGED <<db, lastToggle, oddToggles, file, viewRateLimitMap, likesRateLimitMap, clock, issued, serial, logging>>

\* DELETE /api/posts/:id
DeleteStart(id) ==
    LET i == FindIndex(file, id) IN
    /\ Accept
    /\ budget' = budget - 1
    /\ FoundOr404("delete", id, i, Splice(file, i))
    /\ UNCHANGED <<db, lastToggle, oddToggles, file, viewRateLimitMap, likesRateLimitMap, clock, issued, serial, logging>>

\* post.comments.push(newComment); post.commentsCount += 1
PushComment(post, cid, content) ==
    [post EXCEPT !.comments = Append(post.comments, [id |-> cid, content |-> content]),
                 !.commentsCount = post.commentsCount + 1]

\* POST /api/posts/:id/comments; content: NoValue when content or author is missing
CommentStart(id, content) ==
    LET i == FindIndex(file, id) IN
    /\ Accept
    /\ budget' = budget - 1
    /\ IF content = NoValue
       THEN /\ BadRequest("comment", id)
            /\ UNCHANGED issued
       ELSE IF i = 0
       THEN /\ FoundOr404("comment", id, 0, file)
            /\ UNCHANGED issued
       ELSE /\ CommentUuids \ issued # {}
            /\ issued' = issued \cup {FreshUuid(CommentUuids)}
            /\ FoundOr404("comment", id, i,
                          [file EXCEPT ![i] =
                              PushComment(file[i], FreshUuid(CommentUuids), content)])
    /\ UNCHANGED <<db, lastToggle, oddToggles, file, viewRateLimitMap, likesRateLimitMap, clock, serial, logging>>

\* comment.content = content
SetCommentContent(post, j, content) == [post EXCEPT !.comments[j].content = content]

\* the index of the post when it holds the comment, 0 when either is missing
FindComment(posts, id, cid) ==
    IF FindIndex(posts, id) = 0 THEN 0
    ELSE IF FindIndex(posts[FindIndex(posts, id)].comments, cid) = 0 THEN 0
    ELSE FindIndex(posts, id)

\* PUT /api/posts/:id/comments/:commentId
CommentEditStart(id, cid, content) ==
    LET i == FindComment(file, id, cid) IN
    /\ Accept
    /\ budget' = budget - 1
    /\ IF content = NoValue
       THEN BadRequest("commentEdit", id)
       ELSE FoundOr404("commentEdit", id, i,
                       [file EXCEPT ![i] =
                           SetCommentContent(file[i], FindIndex(file[i].comments, cid), content)])
    /\ UNCHANGED <<db, lastToggle, oddToggles, file, viewRateLimitMap, likesRateLimitMap, clock, issued, serial, logging>>

\* post.comments.splice(commentIndex, 1); post.commentsCount -= 1
RemoveComment(post, j) ==
    [post EXCEPT !.comments = Splice(post.comments, j),
                 !.commentsCount = post.commentsCount - 1]

\* DELETE /api/posts/:id/comments/:commentId
CommentDeleteStart(id, cid) ==
    LET i == FindComment(file, id, cid) IN
    /\ Accept
    /\ budget' = budget - 1
    /\ FoundOr404("commentDelete", id, i,
                  [file EXCEPT ![i] = RemoveComment(file[i], FindIndex(file[i].comments, cid))])
    /\ UNCHANGED <<db, lastToggle, oddToggles, file, viewRateLimitMap, likesRateLimitMap, clock, issued, serial, logging>>

\* ------------------------------------------- the database-backed server
\* server.js 1-629: every `await pool.query(..)` is one statement, run by
\* MariaDB on its own (autocommit); the handler's code between two statements
\* touches nothing shared, so a step is a statement with the code after it.
\*   db.posts     posts: id -> [userId, hits]
\*   db.views     post_views: the rows [post_id, userId, createdAt], oldest first
\*   db.nextId    the AUTO_INCREMENT of posts
\*   db.now       NOW(), in seconds

\* INTERVAL 1 HOUR of the views handler, in seconds
DB_VIEW_INTERVAL == 60 * 60
\* NOW() when the database server is first asked
DbStartClock == 1000 * 1000
\* the time that may pass between two statements
DbElapsed == {0, DB_VIEW_INTERVAL - 1, 1}
\* the :id of a request of the database-backed server
DbTargetIds == {1, 2}

\* the file-backed server has no database
NoDb == [posts |-> <<>>, views |-> <<>>, likes |-> <<>>, nextId |-> 0, now |-> 0]

\* the tables of a database that holds one post, of u1
OnePostDb ==
    [posts |-> (1 :> [userId |-> "u1", hits |-> 0]), views |-> <<>>, likes |-> <<>>,
     nextId |-> 2, now |-> DbStartClock]

\* what the client logs of the tables
DbTables(d) == [posts |-> d.posts, views |-> d.views, likes |-> d.likes]

\* the request context of a handler of the database-backed server
DbArrived(op, pc, id, user) ==
    [op |-> op, pc |-> pc, id |-> id, user |-> user, before |-> DbTables(db),
     existingLike |-> FALSE, written |-> FALSE]

\* res.status(status).json(..) to request q, with `views` in the answer
DbRespond(q, status, views, d) ==
    hist' = (IF Len(hist) < 2 THEN hist ELSE Tail(hist)) \o
            <<[op |-> q.op, id |-> q.id, user |-> q.user, status |-> status,
               views |-> views, before |-> q.before, after |-> DbTables(d),
               now |-> d.now, likeCount |-> Undefined, isLiked |-> FALSE,
               written |-> FALSE]>>

\* NOW() of a statement: the clock has advanced by e since the last statement
DbNow(e) == db.now + e

\* SELECT id FROM post_views WHERE post_id = ? AND userId = ?
\*   AND createdAt > DATE_SUB(NOW(), INTERVAL 1 HOUR)
RecentViews(d, id, user, now) ==
    {k \in 1..Len(d.views) :
        /\ d.views[k].post_id = id
        /\ d.views[k].userId = user
        /\ d.views[k].createdAt > now - DB_VIEW_INTERVAL}

\* FOREIGN KEY (post_id) REFERENCES posts(id): the insert is refused when the
\* post does not exist
ForeignKeyHolds(d, id) == id \in DOMAIN d.posts

\* INSERT INTO post_views (post_id, userId) VALUES (?, ?)
InsertView(d, id, user, now) ==
    [d EXCEPT !.views = Append(d.views, [post_id |-> id, userId |-> user, createdAt |-> now]),
              !.now = now]

\* UPDATE posts SET hits = hits + 1 WHERE id = ?
UpdateHits(d, id) ==
    IF id \in DOMAIN d.posts THEN [d EXCEPT !.posts[id].hits = d.posts[id].hits + 1] ELSE d

\* post[0]?.hits || 0 of SELECT hits FROM posts WHERE id = ?
SelectHits(d, id) == IF id \in DOMAIN d.posts THEN d.posts[id].hits ELSE 0

\* POST /api/posts/:id/views: the request and its SELECT of the recent views
DbViewStart(id, user, e) ==
    LET now == DbNow(e) IN
    /\ Accept
    /\ budget' = budget - 1
    /\ db' = [db EXCEPT !.now = now]
    /\ Begin(DbArrived("dbView",
                       IF RecentViews(db, id, user, now) = {} THEN "insert" ELSE "hits",
                       id, user))
    /\ UNCHANGED <<file, viewRateLimitMap, likesRateLimitMap, clock, issued, lastToggle, oddToggles,
                   serial, logging, hist>>

\* the INSERT into post_views; an error is answered by the catch block
DbViewInsert(q, e) ==
    /\ q.op = "dbView" /\ q.pc = "insert"
    /\ IF ForeignKeyHolds(db, q.id)
       THEN /\ db' = InsertView(db, q.id, q.user, DbNow(e))
            /\ Continue(q, [q EXCEPT !.pc = "update"])
            /\ UNCHANGED hist
       ELSE /\ db' = [db EXCEPT !.now = DbNow(e)]
            /\ End(q)
            /\ DbRespond(q, 500, Undefined, db')
    /\ UNCHANGED <<file, viewRateLimitMap, likesRateLimitMap, clock, issued, lastToggle, oddToggles,
                   budget, serial, logging>>

\* the UPDATE of posts.hits
DbViewUpdate(q) ==
    /\ q.op = "dbView" /\ q.pc = "update"
    /\ db' = UpdateHits(db, q.id)
    /\ Continue(q, [q EXCEPT !.pc = "hits"])
    /\ UNCHANGED <<file, viewRateLimitMap, likesRateLimitMap, clock, issued, lastToggle, oddToggles,
                   budget, serial, logging, hist>>

\* the SELECT of posts.hits and the answer
DbViewHits(q) ==
    /\ q.op = "dbView" /\ q.pc = "hits"
    /\ End(q)
    /\ DbRespond(q, 200, SelectHits(db, q.id), db)
    /\ UNCHANGED <<file, viewRateLimitMap, likesRateLimitMap, clock, issued, lastToggle, oddToggles, db,
                   budget, serial, logging>>

\* INSERT INTO posts (title, content, author, userId) VALUES (?, ?, ?, ?)
InsertPost(d, user) ==
    [d EXCEPT !.posts = d.nextId :> [userId |-> user, hits |-> 0] @@ d.posts,
              !.nextId = d.nextId + 1]

\* POST /api/posts: one INSERT and the answer
DbCreate(user) ==
    /\ Accept
    /\ budget' = budget - 1
    /\ db.nextId \in DbTargetIds
    /\ db' = InsertPost(db, user)
    /\ DbRespond(DbArrived("dbCreate", "done", db.nextId, user), 201, Undefined, db')
    /\ UNCHANGED <<file, viewRateLimitMap, likesRateLimitMap, clock, issued, lastToggle, oddToggles, req,
                   serial, logging>>

\* DELETE /api/posts/:id: the request and its SELECT of the post
DbDeleteStart(id, user) ==
    /\ Accept
    /\ budget' = budget - 1
    /\ IF user = NoValue
       THEN /\ DbRespond(DbArrived("dbDelete", "done", id, user), 400, Undefined, db)
            /\ UNCHANGED req
       ELSE IF id \notin DOMAIN db.posts
       THEN /\ DbRespond(DbArrived("dbDelete", "done", id, user), 404, Undefined, db)
            /\ UNCHANGED req
       ELSE IF db.posts[id].userId # user
       THEN /\ DbRespond(DbArrived("dbDelete", "done", id, user), 403, Undefined, db)
            /\ UNCHANGED req
       ELSE /\ Begin(DbArrived("dbDelete", "delete", id, user))
            /\ UNCHANGED hist
    /\ UNCHANGED <<file, viewRateLimitMap, likesRateLimitMap, clock, issued, lastToggle, oddToggles, db,
                   serial, logging>>

\* Array.prototype.filter on the rows of a table
RECURSIVE RowsNotOf(_, _)
RowsNotOf(rows, id) ==
    IF rows = <<>> THEN <<>>
    ELSE IF Head(rows).post_id = id THEN RowsNotOf(Tail(rows), id)
    ELSE <<Head(rows)>> \o RowsNotOf(Tail(rows), id)

\* DELETE FROM posts WHERE id = ?, with ON DELETE CASCADE of post_views and
\* of post_likes
DeletePost(d, id) ==
    [d EXCEPT !.posts = [k \in DOMAIN d.posts \ {id} |-> d.posts[k]],
              !.views = RowsNotOf(d.views, id),
              !.likes = RowsNotOf(d.likes, id)]

\* the DELETE and the answer
DbDeleteRun(q) ==
    /\ q.op = "dbDelete" /\ q.pc = "delete"
    /\ db' = DeletePost(db, q.id)
    /\ End(q)
    /\ DbRespond(q, 200, Undefined, db')
    /\ UNCHANGED <<file, viewRateLimitMap, likesRateLimitMap, clock, issued, lastToggle, oddToggles,
                   budget, serial, logging>>

\* ---------------------------------------------- the like toggle, post_likes
\* res.json({ success: true, likeCount, isLiked }) to request q; `written` is
\* the client's record of whether the user's row was there after q's own write
DbLikeRespond(q, status, likeCount, isLiked, d) ==
    hist' = (IF Len(hist) < 2 THEN hist ELSE Tail(hist)) \o
            <<[op |-> q.op, id |-> q.id, user |-> q.user, status |-> status,
               views |-> Undefined, before |-> q.before, after |-> DbTables(d),
               now |-> d.now, likeCount |-> likeCount, isLiked |-> isLiked,
               written |-> q.written]>>

\* SELECT * FROM post_likes WHERE post_id = ? AND userId = ?
ExistingLike(d, id, user) ==
    {k \in 1..Len(d.likes) : d.likes[k].post_id = id /\ d.likes[k].userId = user}

\* a table without the unique key accepts every row
UniqueLikeNotDeclared(d, id, user) == TRUE

\* UNIQUE KEY unique_like (post_id, userId): the insert is refused when the
\* pair is already in the table
UniqueLikeHolds(d, id, user) == ExistingLike(d, id, user) = {}

\* INSERT INTO post_likes (post_id, userId) VALUES (?, ?)
InsertLike(d, id, user) ==
    [d EXCEPT !.likes = Append(d.likes, [post_id |-> id, userId |-> user])]

\* DELETE FROM post_likes WHERE post_id = ? AND userId = ?
DeleteLike(d, id, user) ==
    [d EXCEPT !.likes = SelectSeq(d.likes,
                                  LAMBDA r : ~(r.post_id = id /\ r.userId = user))]

\* SELECT COUNT(*) as count FROM post_likes WHERE post_id = ?
CountLikes(d, id) == Len(SelectSeq(d.likes, LAMBDA r : r.post_id = id))

\* POST /api/posts/:id/like: the request and its SELECT of the user's like
DbLikeStart(id, user) ==
    LET existingLike == ExistingLike(db, id, user) # {} IN
    /\ Accept
    /\ budget' = budget - 1
    /\ Begin([DbArrived("dbLike", IF existingLike THEN "unlike" ELSE "like", id, user)
                EXCEPT !.existingLike = existingLike])
    /\ UNCHANGED <<file, viewRateLimitMap, likesRateLimitMap, clock, issued, lastToggle, oddToggles, db,
                   serial, logging, hist>>

\* existingLike.length > 0: the DELETE of the user's like
DbLikeDelete(q) ==
    /\ q.op = "dbLike" /\ q.pc = "unlike"
    /\ db' = DeleteLike(db, q.id, q.user)
    /\ Continue(q, [q EXCEPT !.pc = "count",
                             !.written = ExistingLike(db', q.id, q.user) # {}])
    /\ UNCHANGED <<file, viewRateLimitMap, likesRateLimitMap, clock, issued, lastToggle, oddToggles,
                   budget, serial, logging, hist>>

\* otherwise the INSERT of the like; an error is answered by the catch block
DbLikeInsert(q) ==
    /\ q.op = "dbLike" /\ q.pc = "like"
    /\ IF ForeignKeyHolds(db, q.id) /\ UniqueLikeHolds(db, q.id, q.user)
       THEN /\ db' = InsertLike(db, q.id, q.user)
            /\ Continue(q, [q EXCEPT !.pc = "count",
                                     !.written = ExistingLike(db', q.id, q.user) # {}])
            /\ UNCHANGED hist
       ELSE /\ db' = db
            /\ End(q)
            /\ DbLikeRespond(q, 500, Undefined, FALSE, db)
    /\ UNCHANGED <<file, viewRateLimitMap, likesRateLimitMap, clock, issued, lastToggle, oddToggles,
                   budget, serial, logging>>

\* the SELECT COUNT(*) and the answer, isLiked: !existingLike.length
DbLikeCount(q) ==
    /\ q.op = "dbLike" /\ q.pc = "count"
    /\ End(q)
    /\ DbLikeRespond(q, 200, CountLikes(db, q.id), ~q.existingLike, db)
    /\ UNCHANGED <<file, viewRateLimitMap, likesRateLimitMap, clock, issued, lastToggle, oddToggles, db,
                   budget, serial, logging>>

\* ------------------------------------------------------------ specification
\* posts.json as a fresh installation has it (ensurePostsFile)
FreshFile == <<DefaultPost>>

\* posts.json after u1 has viewed, liked and commented the default post and
\* created a second post
UsedFile ==
    <<[DefaultPost EXCEPT !.likes = 1, !.usersLikes = <<"u1">>, !.views = 1,
                          !.comments = <<[id |-> "k1", content |-> "a"]>>,
                          !.commentsCount = 1],
      NewPost("p1")>>

\* the maps after these requests of u1, all answered at StartClock
UsedViews == "u1" :> ("board" :> StartClock)
UsedLikes == "u1" :> StartClock

\* the process has just started on a fresh installation
JustStarted == [file |-> FreshFile, issued |-> {}, views |-> <<>>, likes |-> <<>>,
                odd |-> {}]

\* the process has served u1
InUse == [file |-> UsedFile, issued |-> {"p1", "k1"}, views |-> UsedViews, likes |-> UsedLikes,
          odd |-> {<<"board", "u1">>}]

\* the state of the process
Started(w) ==
    /\ file = w.file
    /\ issued = w.issued
    /\ viewRateLimitMap = w.views
    /\ likesRateLimitMap = w.likes
    /\ lastToggle = w.likes
    /\ oddToggles = w.odd
    /\ clock = StartClock
    /\ db = NoDb
    /\ req = EmptyBag
    /\ hist = <<>>

\* requests that may overlap
Init ==
    /\ \E w \in {JustStarted, InUse} : Started(w)
    /\ serial = FALSE
    /\ logging = FALSE
    /\ budget = MaxRequests

\* requests that may overlap, their answers logged
InitObserved ==
    /\ \E w \in {JustStarted, InUse} : Started(w)
    /\ serial = FALSE
    /\ logging = TRUE
    /\ budget = MaxRequests

\* requests sent one after the other, their answers logged
InitSerial ==
    /\ \E w \in {JustStarted, InUse} : Started(w)
    /\ serial = TRUE
    /\ logging = TRUE
    /\ budget = MaxSerialRequests

\* the last millisecond before 1970-01-01T00:00:00Z: Date.now() is 0 a moment later
EpochClock == 0 - 1

\* a fresh installation on a machine whose clock stands at the epoch (no
\* battery-backed clock, fake timers), requests sent one after the other
InitEpoch ==
    /\ file = FreshFile
    /\ issued = {}
    /\ viewRateLimitMap = <<>>
    /\ likesRateLimitMap = <<>>
    /\ lastToggle = <<>>
    /\ oddToggles = {}
    /\ clock = EpochClock
    /\ db = NoDb
    /\ req = EmptyBag
    /\ hist = <<>>
    /\ serial = TRUE
    /\ logging = TRUE
    /\ budget = MaxSerialRequests

Next ==
    \/ \E q \in InFlight : ReadFile(q)
    \/ \E q \in InFlight : WriteFile(q)
    \/ \E id \in TargetIds, agent \in Agents, d \in Elapsed : ViewStart(id, agent, d)
    \/ \E q \in InFlight : ViewLoaded(q)
    \/ \E q \in InFlight : ViewSaved(q)
    \/ \E id \in TargetIds, user \in Users \cup {NoValue} : LikeStart(id, user)
    \/ \E q \in InFlight, d \in Elapsed : LikeLoaded(q, d)
    \/ \E valid \in BOOLEAN : CreateStart(valid)
    \/ \E id \in TargetIds, body \in EditBodies : EditStart(id, body)
    \/ \E id \in TargetIds : DeleteStart(id)
    \/ \E id \in TargetIds, c \in CommentContents : CommentStart(id, c)
    \/ \E id \in TargetIds, cid \in CommentUuids, c \in CommentContents :
          CommentEditStart(id, cid, c)
    \/ \E id \in TargetIds, cid \in CommentUuids : CommentDeleteStart(id, cid)

\* the database-backed server has just started on a database with one post
InitDb ==
    /\ file = <<>>
    /\ issued = {}
    /\ viewRateLimitMap = <<>>
    /\ likesRateLimitMap = <<>>
    /\ lastToggle = <<>>
    /\ oddToggles = {}
    /\ clock = StartClock
    /\ db = OnePostDb
    /\ req = EmptyBag
    /\ hist = <<>>
    /\ serial = FALSE
    /\ logging = TRUE
    /\ budget = MaxRequests

NextDb ==
    \/ \E id \in DbTargetIds, user \in Users, e \in DbElapsed : DbViewStart(id, user, e)
    \/ \E q \in InFlight, e \in DbElapsed : DbViewInsert(q, e)
    \/ \E q \in InFlight : DbViewUpdate(q)
    \/ \E q \in InFlight : DbViewHits(q)
    \/ \E user \in Users : DbCreate(user)
    \/ \E id \in DbTargetIds, user \in Users \cup {NoValue} : DbDeleteStart(id, user)
    \/ \E q \in InFlight : DbDeleteRun(q)

\* the database-backed server answering like, create and delete requests
NextDbLikes ==
    \/ \E id \in DbTargetIds, user \in Users : DbLikeStart(id, user)
    \/ \E q \in InFlight : DbLikeDelete(q)
    \/ \E q \in InFlight : DbLikeInsert(q)
    \/ \E q \in InFlight : DbLikeCount(q)
    \/ \E user \in Users : DbCreate(user)
    \/ \E id \in DbTargetIds, user \in Users \cup {NoValue} : DbDeleteStart(id, user)
    \/ \E q \in InFlight : DbDeleteRun(q)

Spec == Init /\ [][Next]_vars

SpecObserved == InitObserved /\ [][Next]_vars

SpecSerial == InitSerial /\ [][Next]_vars

\* the like requests alone
NextLikes ==
    \/ \E q \in InFlight : WriteFile(q)
    \/ \E id \in TargetIds, user \in Users \cup {NoValue} : LikeStart(id, user)
    \/ \E q \in InFlight, d \in Elapsed : LikeLoaded(q, d)

\* the handlers on a disk that can refuse a write
NextFaulty ==
    \/ Next
    \/ \E q \in InFlight : WriteFileFails(q)

SpecEpoch == InitEpoch /\ [][Next]_vars

SpecLikes == InitObserved /\ [][NextLikes]_vars

SpecFaulty == InitSerial /\ [][NextFaulty]_vars

SpecDb == InitDb /\ [][NextDb]_vars

SpecDbLikes == InitDb /\ [][NextDbLikes]_vars

\* ------------------------------------------------------------------- claims
\* the answers in the log
Answers == {hist[k] : k \in 1..Len(hist)}

\* two answers in a row of the log
InARow(a, b) == Len(hist) = 2 /\ a = hist[1] /\ b = hist[2]

SameViewer(a, b) == a.op = "view" /\ b.op = "view" /\ a.user = b.user /\ a.id = b.id

\* the first of two views in a row by one identity on one post was applied and
\* the second came inside the window
SecondViewInWindow(a, b) ==
    /\ InARow(a, b)
    /\ SameViewer(a, b)
    /\ a.status = 200
    /\ b.now - a.now < VIEW_LIMIT_DURATION

\* C1: of two view requests by the same identity on the same post, handled one
\* after the other with the second inside the window of the first, the second is
\* denied and the stored counter is exactly 1 above its value before the two.
C1_SecondViewDenied ==
    \A a, b \in Answers :
        SecondViewInWindow(a, b) =>
            /\ b.status = 429
            /\ b.after.views = a.before.views + 1

C1_Witness ==
    \E a, b \in Answers : SecondViewInWindow(a, b) /\ b.status = 429 /\ b.after.views = 1

\* a toggle by an identity inside the cooldown of its last successful toggle
InCooldown(e) ==
    /\ e.op = "like"
    /\ e.user # NoValue
    /\ e.stampBefore # Undefined
    /\ e.now - e.stampBefore < LIKE_LIMIT_DURATION

\* C2: a like toggle inside the cooldown of the identity's last successful toggle
\* is rejected (429) and changes nothing: likes and usersLikes of the post are
\* as before and the identity's timestamp is still that of the successful toggle.
C2_ThrottledToggleChangesNothing ==
    /\ \A e \in Answers :
          InCooldown(e) =>
              /\ e.status = 429
              /\ e.after = e.before
              /\ e.stampAfter = e.stampBefore
    /\ \A a, b \in Answers :
          (/\ InARow(a, b)
           /\ a.op = "like" /\ a.status = 200
           /\ b.op = "like" /\ b.user = a.user
           /\ b.now - a.now < LIKE_LIMIT_DURATION) =>
              /\ b.status = 429
              /\ b.after = b.before
              /\ b.stampAfter = a.now

C2_Witness ==
    \E a, b \in Answers :
        /\ InARow(a, b)
        /\ a.op = "like" /\ a.status = 200
        /\ InCooldown(b) /\ b.user = a.user /\ b.id = a.id
        /\ b.status = 429
        /\ b.before.likes = 1

\* no identity twice in a list
NoDuplicates(s) == \A i, j \in 1..Len(s) : s[i] = s[j] => i = j

\* C3: every stored post has likes = |usersLikes|, no identity twice in
\* usersLikes, and likes >= 0, whatever requests ran and however they overlapped.
C3_LikesMatchUsersLikes ==
    \A i \in 1..Len(file) :
        /\ file[i].likes = Len(file[i].usersLikes)
        /\ NoDuplicates(file[i].usersLikes)
        /\ file[i].likes >= 0

\* u1's like was taken back and u2's like was added
C3_Witness ==
    \E i \in 1..Len(file) : file[i].id = "board" /\ file[i].usersLikes = <<"u2">>

\* C4 (as claimed): of view requests by one identity on one post that are in flight
\* at the same time, exactly one is answered as applied and the counter goes up
\* by exactly 1.
C4_ExactlyOneConcurrentViewApplied ==
    \A a, b \in Answers :
        (/\ InARow(a, b)
         /\ SameViewer(a, b)
         /\ a.before # NoPost /\ a.before = b.before
         /\ a.stampBefore = Undefined /\ b.stampBefore = Undefined) =>
            /\ (a.status = 200) # (b.status = 200)
            /\ b.after.views = a.before.views + 1

\* x is in the list s
Member(x, s) == Includes(s, x)

\* C5 (as claimed): after two permitted toggles by two identities on one post the
\* stored post holds both membership changes, as if one had run after the other.
C5_BothTogglesStored ==
    \A a, b \in Answers :
        (/\ InARow(a, b)
         /\ a.op = "like" /\ b.op = "like"
         /\ a.id = b.id /\ a.user # b.user
         /\ a.status = 200 /\ b.status = 200) =>
            /\ Member(a.user, b.after.usersLikes) # Member(a.user, a.before.usersLikes)
            /\ Member(b.user, b.after.usersLikes) # Member(b.user, a.before.usersLikes)

\* the stored post of answer e shows the effect of e's request
EffectStored(e) ==
    LET c == Counters(file, e.id) IN
    /\ e.op = "view" => c.views = e.before.views + 1
    /\ e.op = "like" => Member(e.user, c.usersLikes) # Member(e.user, e.before.usersLikes)

\* C6 (as claimed): a view or like on one post and a view or like on another post
\* that overlap both leave their effect in the stored state.
C6_OtherPostKeepsItsChange ==
    \A a, b \in Answers :
        (/\ InARow(a, b)
         /\ req = EmptyBag
         /\ {a.op, b.op} \subseteq {"view", "like"}
         /\ a.id # b.id
         /\ a.status = 200 /\ b.status = 200) =>
            EffectStored(a) /\ EffectStored(b)

\* C7 (as claimed): a like request on a post that does not exist is answered
\* NotFound, never Throttled.
C7_NotFoundBeforeThrottle ==
    \A e \in Answers :
        (e.op = "like" /\ e.user # NoValue /\ e.before = NoPost) => e.status = 404

\* C8 (as claimed): a view request for a post that does not exist is answered
\* NotFound and leaves the post_views rows and every hits counter as they were.
C8_MissingPostNotFound ==
    \A e \in Answers :
        (e.op = "dbView" /\ e.id \notin DOMAIN e.before.posts) =>
            /\ e.status = 404
            /\ e.after = e.before

\* C9: a view denied inside the window leaves the timestamp of (identity, post)
\* and the counter as they were, so the next request of that identity at or
\* after the timestamp plus the window is applied.
C9_DeniedViewLeavesTimestamp ==
    /\ \A e \in Answers :
          (e.op = "view" /\ e.status = 429) =>
              /\ e.after = e.before
              /\ e.stampAfter = e.stampBefore
              /\ e.stampBefore # Undefined
              /\ e.now - e.stampBefore < VIEW_LIMIT_DURATION
    /\ \A a, b \in Answers :
          (/\ InARow(a, b)
           /\ SameViewer(a, b)
           /\ a.status = 429
           /\ b.now >= a.stampBefore + VIEW_LIMIT_DURATION) =>
              b.status = 200

\* a denied view left the timestamp alone and the next view of that identity,
\* a window after the timestamp, was applied
C9_Witness ==
    \E a, b \in Answers :
        /\ InARow(a, b)
        /\ SameViewer(a, b)
        /\ a.status = 429
        /\ a.now > a.stampBefore
        /\ a.stampAfter = a.stampBefore
        /\ a.after.views = a.before.views
        /\ b.now >= a.stampBefore + VIEW_LIMIT_DURATION
        /\ b.status = 200

\* a view request on a post that exists
ViewOfPost(e) == e.op = "view" /\ e.before # NoPost

\* C10: a view is applied exactly when no timestamp is recorded for (identity,
\* post) or now - lastTimestamp >= the window; an applied view raises the counter
\* by exactly 1 and records now.
C10_AppliedIffOutsideWindow ==
    \A e \in Answers :
        ViewOfPost(e) =>
            /\ e.status \in {200, 429}
            /\ e.status = 200 <=>
                  \/ e.stampBefore = Undefined
                  \/ e.now - e.stampBefore >= VIEW_LIMIT_DURATION
            /\ e.status = 200 =>
                  /\ e.after.views = e.before.views + 1
                  /\ e.stampAfter = e.now

\* a view exactly at lastTimestamp + window was applied
C10_Witness ==
    \E e \in Answers :
        /\ ViewOfPost(e)
        /\ e.stampBefore # Undefined
        /\ e.now = e.stampBefore + VIEW_LIMIT_DURATION
        /\ e.status = 200
        /\ e.after.views = e.before.views + 1

\* a toggle that names an identity
LikeOf(e) == e.op = "like" /\ e.user # NoValue

\* C11: the like cooldown is keyed by the identity alone: after a successful
\* toggle of an identity, its toggle on any other post inside the cooldown is
\* throttled, and a toggle is throttled only by a timestamp of its own identity,
\* never by the toggle of another identity.
C11_CooldownPerIdentity ==
    /\ \A a, b \in Answers :
          (/\ InARow(a, b)
           /\ LikeOf(a) /\ a.status = 200
           /\ LikeOf(b) /\ b.user = a.user /\ b.id # a.id
           /\ b.now - a.now < LIKE_LIMIT_DURATION) =>
              b.status = 429
    /\ \A e \in Answers :
          (LikeOf(e) /\ e.status = 429) =>
              /\ e.toggled # Undefined
              /\ e.now - e.toggled < LIKE_LIMIT_DURATION
    /\ \A a, b \in Answers :
          (/\ InARow(a, b)
           /\ LikeOf(a) /\ a.status = 200
           /\ LikeOf(b) /\ b.user # a.user
           /\ b.toggled = Undefined) =>
              b.status # 429

\* u1 liked one post and was throttled on the other inside the cooldown
C11_Witness ==
    \E a, b \in Answers :
        /\ InARow(a, b)
        /\ LikeOf(a) /\ a.status = 200
        /\ LikeOf(b) /\ b.user = a.user /\ b.id # a.id
        /\ b.before # NoPost
        /\ b.now - a.now < LIKE_LIMIT_DURATION
        /\ b.status = 429

\* the identities in a list
Range(s) == {s[k] : k \in 1..Len(s)}

\* the identities with an odd number of permitted toggles on post id
OddOn(id) == {u \in Users : <<id, u>> \in oddToggles}

\* C12: for toggles sent one after the other, a toggle that comes at least the
\* cooldown after the last permitted toggle of its identity is permitted, and
\* after the toggles usersLikes of a post is exactly the set of identities with
\* an odd number of toggles on it and likes is their number.
C12_LikesAreOddToggles ==
    /\ \A e \in Answers :
          (/\ LikeOf(e) /\ e.before # NoPost
           /\ e.stampBefore = Undefined \/ e.now - e.stampBefore >= LIKE_LIMIT_DURATION) =>
              e.status = 200
    /\ req = EmptyBag =>
          \A i \in 1..Len(file) :
              /\ Range(file[i].usersLikes) = OddOn(file[i].id)
              /\ file[i].likes = Cardinality(OddOn(file[i].id))

\* u1 liked the default post and, a cooldown later, took the like back
C12_Witness ==
    \E a, b \in Answers :
        /\ InARow(a, b)
        /\ LikeOf(a) /\ LikeOf(b) /\ a.user = b.user /\ a.id = b.id
        /\ a.status = 200 /\ b.status = 200
        /\ a.after.likes = 1 /\ b.after.likes = 0
        /\ a.before.likes = 0
        /\ req = EmptyBag
        /\ OddOn(a.id) = {}

\* C13 (as claimed): a toggle of an identity on an existing post is refused only
\* inside the cooldown of an earlier permitted toggle of that identity; the
\* first toggle is permitted whatever the clock reads, 0 included.
C13_FirstTogglePermitted ==
    \A e \in Answers :
        (LikeOf(e) /\ e.before # NoPost /\ e.status # 200) =>
            /\ e.toggled # Undefined
            /\ e.now - e.toggled < LIKE_LIMIT_DURATION

\* C14 (as claimed): a view applied at any reading of the clock, 0 included,
\* suppresses the views of that identity on that post inside the window.
C14_ViewAtZeroSuppresses ==
    \A a, b \in Answers :
        (/\ InARow(a, b)
         /\ SameViewer(a, b)
         /\ a.status = 200
         /\ b.now - a.now < VIEW_LIMIT_DURATION) =>
            /\ b.status = 429
            /\ b.after.views = a.after.views

\* a view of a post that exists inside the window of the identity's last applied
\* view of it, or a toggle inside the cooldown of its identity
Throttled(e) ==
    \/ /\ ViewOfPost(e)
       /\ e.stampBefore # Undefined
       /\ e.now - e.stampBefore < VIEW_LIMIT_DURATION
    \/ InCooldown(e)

\* the counter of the post that the request of answer e is about
CurrentCounter(e) == IF e.op = "view" THEN e.after.views ELSE e.after.likes

C16_SuccessMeansPersisted ==
    \A e \in Answers :
        (e.op \in {"view", "like"} /\ e.body.success) =>
            e.body.carried = CurrentCounter(e)

\* every key of the two maps is still there after the step
KeysKept ==
    /\ \A k \in DOMAIN viewRateLimitMap :
          /\ k \in DOMAIN viewRateLimitMap'
          /\ DOMAIN viewRateLimitMap[k] \subseteq DOMAIN viewRateLimitMap'[k]
    /\ DOMAIN likesRateLimitMap \subseteq DOMAIN likesRateLimitMap'

\* a key that is new after the step is the key of a request the step handles
KeysOfRequests ==
    /\ \A k \in DOMAIN viewRateLimitMap' \ DOMAIN viewRateLimitMap :
          \E q \in InFlight : q.op = "view" /\ q.pc = "loaded" /\ q.user = k
    /\ \A k \in DOMAIN viewRateLimitMap' :
          \A id \in DOMAIN viewRateLimitMap'[k] :
              LastViewTime(viewRateLimitMap, k, id) = Undefined =>
                  \E q \in InFlight :
                      q.op = "view" /\ q.pc = "written" /\ q.user = k /\ q.id = id
    /\ \A u \in DOMAIN likesRateLimitMap' \ DOMAIN likesRateLimitMap :
          \E q \in InFlight : q.op = "like" /\ q.pc = "loaded" /\ q.user = u

\* a timestamp that differs after the step is that of a request of its key which
\* the step permits: an applied view, a toggle outside the cooldown
StampsOfPermitted ==
    /\ \A k \in DOMAIN viewRateLimitMap :
          \A id \in DOMAIN viewRateLimitMap[k] :
              viewRateLimitMap'[k][id] # viewRateLimitMap[k][id] =>
                  \E q \in InFlight :
                      /\ q.op = "view" /\ q.pc = "written" /\ q.user = k /\ q.id = id
                      /\ viewRateLimitMap'[k][id] = q.now
    /\ \A u \in DOMAIN likesRateLimitMap :
          likesRateLimitMap'[u] # likesRateLimitMap[u] =>
              \E q \in InFlight :
                  /\ q.op = "like" /\ q.pc = "loaded" /\ q.user = u
                  /\ FindIndex(q.posts, q.id) # 0
                  /\ clock' - likesRateLimitMap[u] >= LIKE_LIMIT_DURATION
                  /\ likesRateLimitMap'[u] = clock'

\* C17: in every step, however the requests overlap and also when a post is
\* deleted, the keys of the view and like rate-limit maps are kept, a new key is
\* that of a request being handled, and a timestamp changes only to the time of
\* a permitted request of its key.
C17_EntriesOnlyGrow == [][KeysKept /\ KeysOfRequests /\ StampsOfPermitted]_vars

\* the timestamp of a view is kept though its post was deleted
C17_Witness ==
    /\ \E k \in DOMAIN viewRateLimitMap :
          \E id \in DOMAIN viewRateLimitMap[k] : FindIndex(file, id) = 0
    /\ req = EmptyBag
    /\ budget = 0

\* the ids of the stored posts
StoredIds(posts) == {posts[k].id : k \in 1..Len(posts)}

\* C18 (as claimed): in every step, also when requests overlap, views, likes and
\* usersLikes of a stored post change only by the write of a view or like
\* request on that post.
C18_CountersChangedByViewOrLike ==
    [][\A id \in StoredIds(file) \cap StoredIds(file') :
          Counters(file', id) # Counters(file, id) =>
              \E q \in InFlight :
                  /\ q.pc = "write" /\ q.op \in {"view", "like"} /\ q.id = id
                  /\ file' = q.posts]_vars

\* the toggles that were permitted and are still to be written
PermittedInFlight == {q \in InFlight : q.op = "like" /\ q.pc = "write"}

\* C19: however like requests of one identity overlap, on one post or on several,
\* two of them that are permitted are at least the cooldown apart: of the
\* toggles permitted and not yet answered, and of those and the answered ones.
C19_OnePermittedPerCooldown ==
    /\ \A q \in PermittedInFlight :
          /\ req[q] = 1
          /\ \A p \in PermittedInFlight \ {q} :
                p.user = q.user =>
                    \/ p.now - q.now >= LIKE_LIMIT_DURATION
                    \/ q.now - p.now >= LIKE_LIMIT_DURATION
          /\ \A e \in Answers :
                (LikeOf(e) /\ e.status = 200 /\ e.user = q.user) =>
                    \/ q.now - e.now >= LIKE_LIMIT_DURATION
                    \/ e.now - q.now >= LIKE_LIMIT_DURATION
    /\ \A a, b \in Answers :
          (/\ InARow(a, b)
           /\ LikeOf(a) /\ LikeOf(b) /\ a.user = b.user
           /\ a.status = 200 /\ b.status = 200) =>
              \/ b.now - a.now >= LIKE_LIMIT_DURATION
              \/ a.now - b.now >= LIKE_LIMIT_DURATION

\* two toggles of one identity on two posts had both arrived before either was
\* handled; one was permitted and the other throttled
C19_Witness ==
    \E a, b \in Answers :
        /\ LikeOf(a) /\ LikeOf(b) /\ a.user = b.user /\ a.id # b.id
        /\ a.before # NoPost /\ b.before # NoPost
        /\ a.stampBefore = b.stampBefore
        /\ a.status = 200 /\ b.status = 429

\* C20 (as claimed): in every step, however the requests overlap, the stored
\* views of a post that stays stored is at least what it was.
C20_ViewsNeverDecrease ==
    [][\A id \in StoredIds(file) \cap StoredIds(file') :
          Counters(file', id).views >= Counters(file, id).views]_vars

\* C21 (as claimed): a post whose delete request was answered is not in the
\* stored posts afterwards, whatever requests were in flight when it was deleted.
C21_DeletedStaysDeleted ==
    \A e \in Answers :
        (e.op = "delete" /\ e.status = 200) => FindIndex(file, e.id) = 0

\* a like request answered NotFound or BadRequest
LikeFailed(e) == e.op = "like" /\ e.status \in {400, 404}

\* C24: a like request answered NotFound or BadRequest does not record its time
\* for the identity, and the next like request of that identity is throttled
\* only inside the cooldown of a toggle of that identity that was permitted.
C24_FailedLikeStartsNoCooldown ==
    /\ \A e \in Answers :
          LikeFailed(e) =>
              /\ e.after = e.before
              /\ e.stampAfter \in {e.stampBefore, 0}
              /\ e.stampAfter # e.now
    /\ \A a, b \in Answers :
          (/\ InARow(a, b)
           /\ LikeFailed(a)
           /\ LikeOf(b) /\ b.user = a.user /\ b.before # NoPost
           /\ b.status # 200) =>
              /\ b.toggled # Undefined
              /\ b.now - b.toggled < LIKE_LIMIT_DURATION

\* u2's like of a missing post was answered 404 and its like of the default
\* post, a moment later, was permitted
C24_Witness ==
    \E a, b \in Answers :
        /\ InARow(a, b)
        /\ a.op = "like" /\ a.status = 404
        /\ LikeOf(b) /\ b.user = a.user
        /\ b.now - a.now < LIKE_LIMIT_DURATION
        /\ b.status = 200
        /\ b.after.likes = b.before.likes + 1

\* the rows of post_likes in tables t that are of post id
LikeRowsOf(t, id) == {k \in 1..Len(t.likes) : t.likes[k].post_id = id}

\* an answered like toggle of the database-backed server
DbLikeOf(e) == e.op = "dbLike"

\* C22: post_likes never holds two rows of one post and user, and a toggle
\* answered with success reports isLiked as its user's row was right after its
\* own write and likeCount as the number of rows of the post at its count.
C22_OneRowAndTruthfulAnswer ==
    /\ \A i, j \in 1..Len(db.likes) :
          (db.likes[i].post_id = db.likes[j].post_id
           /\ db.likes[i].userId = db.likes[j].userId) => i = j
    /\ \A e \in Answers :
          (DbLikeOf(e) /\ e.status = 200) =>
              /\ e.isLiked = e.written
              /\ e.likeCount = Cardinality(LikeRowsOf(e.after, e.id))

\* two toggles of one user on one post both found no row at their SELECT: one
\* was answered with success and isLiked, the other was refused, and the
\* table holds the one row
C22_Witness ==
    \E a, b \in Answers :
        /\ InARow(a, b)
        /\ DbLikeOf(a) /\ DbLikeOf(b)
        /\ a.id = b.id /\ a.user = b.user
        /\ LikeRowsOf(a.before, a.id) = {} /\ LikeRowsOf(b.before, b.id) = {}
        /\ a.status = 200 /\ a.isLiked /\ a.likeCount = 1
        /\ b.status = 500
        /\ Cardinality(LikeRowsOf(DbTables(db), a.id)) = 1

\* the rows of post_views in tables t that are of post id
ViewRowsOf(t, id) == {k \in 1..Len(t.views) : t.views[k].post_id = id}

\* C23 (as claimed): in the state in which a view request of the
\* database-backed server was answered, posts.hits of every post is the number
\* of its post_views rows, and a successful answer carries that number.
C23_HitsAreViewRows ==
    \A e \in Answers :
        e.op = "dbView" =>
            /\ \A id \in DOMAIN e.after.posts :
                  e.after.posts[id].hits = Cardinality(ViewRowsOf(e.after, id))
            /\ (e.status = 200 /\ e.id \in DOMAIN e.after.posts) =>
                  e.views = Cardinality(ViewRowsOf(e.after, e.id))
====
